---- MODULE Spec2Model ----
(***************************************************************************)
(* Element resolution and wait-state engine of pageFixture                 *)
(* (src/ui-automation-core/utilities/visualTestingUtils.ts, lines 119-761):*)
(* selector translation, the race between the engine's selector wait and   *)
(* a timer, element resolution and the action wrappers built on it.        *)
(*                                                                         *)
(* Strings are sequences of one-character strings.  An optional value      *)
(* (a TypeScript `x?: T`, or a variable that may be undefined) is a set:   *)
(* {} for undefined, {v} for the value v.  Time is in milliseconds and is  *)
(* kept relative: every pending operation carries the time left until it   *)
(* settles.                                                                *)
(***************************************************************************)
EXTENDS Integers, Sequences, FiniteSets, Bags, TLC

VARIABLES
  formedSelector,   \* module variable `formedSelector` (line 124)
  pageTimeout,      \* the page's default timeout inside the engine
  call,             \* the accessor call in progress, or the last one finished
  background,       \* bag of engine operations that outlived the race they lost
  fsIn,             \* input of a direct formSelector call
  fsOut,            \* its result
  files,            \* the baseline, current and diff image files of one test name
  workers,          \* per worker process: its visual-testing call
  calls             \* per caller: its getElement-style call on the shared page

vars == <<formedSelector, pageTimeout, call, background, fsIn, fsOut, files, workers, calls>>

----------------------------------------------------------------------------
(* Optional values *)

None == {}
Some(x) == {x}
The(o) == CHOOSE x \in o : TRUE

Min(a, b) == IF a <= b THEN a ELSE b
Max(a, b) == IF a >= b THEN a ELSE b

----------------------------------------------------------------------------
(* Bounds of the model *)

\* longest selector given to a direct formSelector call
MaxSelLen == 3
\* most leftover engine operations in the background when a new call starts
MaxBackground == 1

\* characters selectors are built from
Alphabet == {"#", "/", "(", "a", " "}

RECURSIVE StringsUpTo(_)
StringsUpTo(n) ==
  IF n = 0 THEN {<<>>}
  ELSE LET shorter == StringsUpTo(n - 1)
       IN shorter \cup {Append(s, ch) : s \in {t \in shorter : Len(t) = n - 1}, ch \in Alphabet}

AllSelectors == StringsUpTo(MaxSelLen)

\* selectors given to the accessor operations: short form, structural, invalid
CallSelectors == {<<"#", "a">>, <<"/", "/", "a">>, <<"a">>}

\* timeoutMs arguments: absent, not positive, below and above the page default
TimeoutInputs == {None, Some(0), Some(1000), Some(40000)}

\* when the awaited condition becomes true, counted from the start of the
\* call: never, early, late
CondInputs == {None, Some(500), Some(2000)}

----------------------------------------------------------------------------
(* enum ElementWaitState *)

PRESENT == 1
VISIBLE == 2
INVISIBLE == 3

\* waitState arguments: absent, the three enum members, a number outside the enum
WaitStateInputs == {None, Some(PRESENT), Some(VISIBLE), Some(INVISIBLE), Some(4)}

\* let defaultTimeout: 30000   -- a type annotation, no initialiser: undefined
defaultTimeout == None

\* timeout of waitForSelector when the call gives none: the engine's own
\* default, until open() replaces it
EngineDefaultTimeout == 30 * 1000
OpenedPageTimeout == 100 * 1000

----------------------------------------------------------------------------
(* formSelector *)

AttrPrefix == <<"[", "d", "a", "t", "a", "-", "t", "e", "s", "t", "i", "d", "=", "\"">>
AttrSuffix == <<"\"", "]">>

startsWith(s, prefix) ==
  /\ Len(s) >= Len(prefix)
  /\ SubSeq(s, 1, Len(prefix)) = prefix

\* s.slice(n): s without its first n characters
slice(s, n) == SubSeq(s, n + 1, Len(s))

Err(kind, selector) == [kind |-> kind, selector |-> selector]
NoError == Err("none", <<>>)

\* a variant of the pattern without the ^ anchor: matches anywhere
xpathPatternUnanchored(selector) ==
  \E i \in 1..Len(selector) :
    \/ selector[i] = "("
    \/ i < Len(selector) /\ selector[i] = "/" /\ selector[i + 1] = "/"

\* /^(\/\/|\()/.test(selector)
xpathPattern(selector) ==
  \/ startsWith(selector, <<"/", "/">>)
  \/ startsWith(selector, <<"(">>)

formSelector(selector) ==
  IF startsWith(selector, <<"#">>)
    THEN LET dataTestId == slice(selector, 1)
         IN [ok |-> TRUE, value |-> AttrPrefix \o dataTestId \o AttrSuffix, error |-> NoError]
  ELSE IF xpathPattern(selector)
    THEN [ok |-> TRUE, value |-> selector, error |-> NoError]
  ELSE [ok |-> FALSE, value |-> <<>>, error |-> Err("InvalidSelector", selector)]

NoResult == [ok |-> FALSE, value |-> <<>>, error |-> NoError]

----------------------------------------------------------------------------
(* The call record *)

Ops == {"waitForElementState", "getElement", "getElements", "setText", "clearText",
        "keyPress", "getText", "click", "doubleClick", "getPropertyValue",
        "isElementPresent", "isElementVisible", "isElementEnabled", "isElementChecked",
        "selectCheckbox", "unselectCheckbox", "selectDropdownOption"}

IdleCall ==
  [op |-> "none", selector |-> <<>>, waitState |-> None, timeoutMs |-> None,
   condAt |-> None, pc |-> "idle", phase |-> 0,
   poll |-> None, timer |-> None,
   clock |-> 0,            \* time spent in this call's waits
   waitTimeout |-> None,   \* what the latest wait gave to waitForTimeout
   waitEnd |-> "none",     \* how the latest wait ended
   element |-> "unset",    \* what the query returned
   engine |-> <<>>,        \* the engine calls made, in order
   outcome |-> "none", value |-> "none", error |-> NoError,
   logged |-> NoError]     \* the error given to logger.error, if any

EngineCall(m, arg, opt) == [m |-> m, arg |-> arg, opt |-> opt]

----------------------------------------------------------------------------
(* What each operation does around getElement *)

\* the operations whose catch block logs and does not rethrow
Swallows(op) ==
  op \in {"setText", "selectCheckbox", "unselectCheckbox", "selectDropdownOption"}

\* the operations that take a waitState argument
TakesWaitState(op) ==
  op \in {"waitForElementState", "getElement", "getElements", "clearText", "keyPress",
          "getText", "click", "doubleClick", "getPropertyValue",
          "selectCheckbox", "unselectCheckbox", "selectDropdownOption"}

\* the waitState an operation hands to getElement
WaitStateGiven(op, waitState) ==
  CASE op = "setText" -> Some(VISIBLE)
    [] op = "isElementPresent" -> Some(PRESENT)
    [] op \in {"isElementVisible", "isElementEnabled", "isElementChecked"} -> Some(VISIBLE)
    [] OTHER -> waitState

\* a variant in which keyPress lacks its else branch, as click does
OnAbsentNoElse(op) ==
  CASE op \in {"clearText", "getText", "setText",
               "isElementVisible", "isElementEnabled", "isElementChecked"} -> "throw"
    [] op = "getPropertyValue" -> "typeError"
    [] op \in {"getElement", "getElements", "isElementPresent"} -> "return"
    [] OTHER -> "skip"

\* a variant in which isElementEnabled lacks its else branch
OnAbsentEnabledSkips(op) ==
  CASE op \in {"clearText", "keyPress", "getText", "setText",
               "isElementVisible", "isElementChecked"} -> "throw"
    [] op = "getPropertyValue" -> "typeError"
    [] op \in {"getElement", "getElements", "isElementPresent"} -> "return"
    [] OTHER -> "skip"

\* what an operation does when getElement gave null
OnAbsent(op) ==
  CASE op \in {"clearText", "keyPress", "getText", "setText",
               "isElementVisible", "isElementEnabled", "isElementChecked"} -> "throw"
    [] op = "getPropertyValue" -> "typeError"
    [] op \in {"getElement", "getElements", "isElementPresent"} -> "return"
    [] OTHER -> "skip"

\* the engine call an operation makes on the element it resolved
ElementAction(op) ==
  CASE op \in {"clearText", "setText"} -> "fill"
    [] op = "keyPress" -> "press"
    [] op = "getText" -> "textContent"
    [] op = "click" -> "click"
    [] op = "doubleClick" -> "dblclick"
    [] op = "getPropertyValue" -> "getProperty"
    [] op = "isElementVisible" -> "isVisible"
    [] op = "isElementEnabled" -> "isEnabled"
    [] op = "isElementChecked" -> "$eval"
    [] op = "selectCheckbox" -> "check"
    [] op = "unselectCheckbox" -> "uncheck"
    [] op = "selectDropdownOption" -> "selectOption"
    [] OTHER -> "none"

\* what that engine call can yield
ActionResults(op) ==
  CASE op = "getPropertyValue" -> {"value", "null", "fault"}
    [] op \in {"isElementVisible", "isElementEnabled", "isElementChecked"} ->
         {"true", "false", "fault"}
    [] op = "getText" -> {"text", "fault"}
    [] OTHER -> {"undefined", "fault"}

----------------------------------------------------------------------------
(* Leaving an operation *)

\* a variant of the catch blocks in which selectCheckbox rethrows
RaiseRethrowing(c, err) ==
  IF Swallows(c.op) /\ c.op # "selectCheckbox"
    THEN [c EXCEPT !.pc = "done", !.outcome = "returned", !.value = "undefined",
                   !.logged = err]
    ELSE [c EXCEPT !.pc = "done", !.outcome = "threw", !.error = err, !.logged = err]

\* an error reaches the operation's catch block: logged, then rethrown or not
Raise(c, err) ==
  IF Swallows(c.op)
    THEN [c EXCEPT !.pc = "done", !.outcome = "returned", !.value = "undefined",
                   !.logged = err]
    ELSE [c EXCEPT !.pc = "done", !.outcome = "threw", !.error = err, !.logged = err]

Return(c, v) == [c EXCEPT !.pc = "done", !.outcome = "returned", !.value = v]

----------------------------------------------------------------------------
(* waitForElementState: the race *)

\* timeoutMs !== undefined && timeoutMs > 0 ? timeoutMs : defaultTimeout
timeout(timeoutMs) ==
  IF timeoutMs # None /\ The(timeoutMs) > 0 THEN timeoutMs ELSE defaultTimeout

\* the option given to page.waitForSelector for a wait state
StateOption(waitState) ==
  CASE waitState = PRESENT -> ""
    [] waitState = INVISIBLE -> "hidden"
    [] waitState = VISIBLE -> "visible"

\* page.waitForSelector without a timeout option: resolves when the condition
\* comes true, rejects when the page's default timeout passes first
waitForSelector(condAt, clock) ==
  LET left == IF condAt = None THEN None ELSE Some(Max(0, The(condAt) - clock))
  IN IF left # None /\ The(left) < pageTimeout
       THEN [kind |-> "poll", remaining |-> The(left), settle |-> "resolve"]
       ELSE [kind |-> "poll", remaining |-> pageTimeout, settle |-> "reject"]

\* page.waitForTimeout(t): resolves after t ms; given undefined it settles at
\* once, resolved or rejected as the engine's argument check decides
waitForTimeout(t) ==
  IF t = None
    THEN [kind |-> "timer", remaining |-> 0, settle |-> "either"]
    ELSE [kind |-> "timer", remaining |-> The(t), settle |-> "resolve"]

Settles(o) == IF o.settle = "either" THEN {"resolve", "reject"} ELSE {o.settle}

\* lines 233-252, up to the await of Promise.race
waitForElementState(c, waitState, timeoutMs) ==
  LET fs == formSelector(c.selector)
      t == timeout(timeoutMs)
  IN IF ~fs.ok
       THEN /\ call' = Raise(c, fs.error)
            /\ UNCHANGED formedSelector
       ELSE /\ formedSelector' = fs.value
            /\ IF waitState \notin {Some(PRESENT), Some(INVISIBLE), Some(VISIBLE)}
                 THEN call' = Raise(c, Err("InvalidWaitState", c.selector))
                 ELSE call' =
                        [c EXCEPT !.pc = "race",
                                  !.poll = Some(waitForSelector(c.condAt, c.clock)),
                                  !.timer = Some(waitForTimeout(t)),
                                  !.waitTimeout = t,
                                  !.waitEnd = "none",
                                  !.engine = @ \o
                                    <<EngineCall("waitForSelector", fs.value,
                                                 StateOption(The(waitState))),
                                      EngineCall("waitForTimeout", <<>>, "")>>]

\* lines 398-403 (and 422-427): the defaults, then the wait
getElement(c, waitState, timeoutMs) ==
  LET t == timeout(timeoutMs)
      elementWaitState == IF waitState = None THEN Some(VISIBLE) ELSE waitState
  IN waitForElementState(c, elementWaitState, t)

\* the first wait an operation starts
Begin(c) ==
  IF c.op = "waitForElementState"
    THEN waitForElementState(c, c.waitState, c.timeoutMs)
  ELSE IF c.op = "setText"
    THEN waitForElementState([c EXCEPT !.phase = 1], Some(VISIBLE), c.timeoutMs)
  ELSE getElement(c, WaitStateGiven(c.op, c.waitState), c.timeoutMs)

\* what follows the await of Promise.race
AfterWait(c, which, res) ==
  IF res = "reject"
    THEN /\ call' = Raise(c, Err(IF which = "poll" THEN "TimeoutError" ELSE "TimerArgument",
                                 c.selector))
         /\ UNCHANGED formedSelector
  ELSE IF c.op = "waitForElementState"
    THEN /\ call' = Return(c, "undefined")
         /\ UNCHANGED formedSelector
  ELSE IF c.op = "setText" /\ c.phase = 1
    THEN getElement([c EXCEPT !.phase = 2], Some(VISIBLE), c.timeoutMs)
  ELSE /\ call' = [c EXCEPT !.pc = "query"]
       /\ UNCHANGED formedSelector

----------------------------------------------------------------------------
(* Pending engine operations and the passing of time *)

Pending == BagToSet(background) \cup call.poll \cup call.timer

IsMinRemaining(r) == \A o \in Pending : r <= o.remaining

Elapse(o, r) == [o EXCEPT !.remaining = @ - r]

Advance(B, r) ==
  LET S == BagToSet(B)
      T == {Elapse(o, r) : o \in S}
  IN [t \in T |-> CopiesIn(Elapse(t, 0 - r), B)]

----------------------------------------------------------------------------
(* Actions *)

\* a test step calls one accessor operation; it runs to its first await
Call ==
  /\ call.pc = "idle"
  /\ BagCardinality(background) < MaxBackground
  /\ \E op \in Ops, selector \in CallSelectors, waitState \in WaitStateInputs,
        timeoutMs \in TimeoutInputs, condAt \in CondInputs :
       /\ TakesWaitState(op) \/ waitState = None
       /\ Begin([IdleCall EXCEPT !.op = op, !.selector = selector,
                                 !.waitState = waitState, !.timeoutMs = timeoutMs,
                                 !.condAt = condAt])
  /\ UNCHANGED <<pageTimeout, background, fsIn, fsOut, files, workers, calls>>

\* Promise.race (line 252): the first of the two promises to settle decides;
\* the other one is left running
RaceSettle ==
  /\ call.pc = "race"
  /\ \E which \in {"poll", "timer"}, res \in {"resolve", "reject"} :
       LET o == The(call[which])
           loser == The(call[IF which = "poll" THEN "timer" ELSE "poll"])
           r == o.remaining
           end == IF res = "reject" THEN which \o "Rejected"
                  ELSE IF which = "poll" THEN "condition" ELSE "timer"
           c == [call EXCEPT !.poll = None, !.timer = None, !.clock = @ + r,
                             !.waitEnd = end]
       IN /\ IsMinRemaining(r)
          /\ res \in Settles(o)
          /\ background' = Advance(background, r) (+) SetToBag({Elapse(loser, r)})
          /\ AfterWait(c, which, res)
  /\ UNCHANGED <<pageTimeout, fsIn, fsOut, files, workers, calls>>

\* an operation left behind by an earlier race settles; nobody awaits it
BackgroundSettle ==
  /\ call.pc \in {"idle", "done", "race"}
  /\ \E o \in BagToSet(background) :
       LET r == o.remaining
       IN /\ IsMinRemaining(r)
          /\ background' = Advance(background (-) SetToBag({o}), r)
          /\ call' = IF call.pc = "race"
                       THEN [call EXCEPT !.clock = @ + r,
                                         !.poll = {Elapse(The(@), r)},
                                         !.timer = {Elapse(The(@), r)}]
                       ELSE call
  /\ UNCHANGED <<formedSelector, pageTimeout, fsIn, fsOut, files, workers, calls>>

\* line 405 / 429: the one concrete query, with the module variable
Query ==
  /\ call.pc = "query"
  /\ \E found \in {"null", "handle", "fault"} :
       LET m == IF call.op = "getElements" THEN "$$" ELSE "$"
           c == [call EXCEPT !.engine = Append(@, EngineCall(m, formedSelector, ""))]
           d == [c EXCEPT !.element = found]
       IN call' =
            IF found = "fault" THEN Raise(c, Err("EngineFault", c.selector))
            ELSE IF c.op = "getElement" THEN Return(d, found)
            ELSE IF c.op = "getElements"
              THEN Return(d, IF found = "null" THEN "[]" ELSE "[handle]")
            ELSE IF c.op = "isElementPresent"
              THEN IF found # "null"
                     THEN Return(d, "true")
                     ELSE Return([d EXCEPT !.logged = Err("NotPresent", c.selector)], "false")
            ELSE IF found # "null" THEN [d EXCEPT !.pc = "act"]
            ELSE CASE OnAbsent(c.op) = "throw" -> Raise(d, Err("NotFound", c.selector))
                   [] OnAbsent(c.op) = "typeError" -> Raise(d, Err("TypeError", c.selector))
                   [] OTHER -> Return(d, "undefined")
  /\ UNCHANGED <<formedSelector, pageTimeout, background, fsIn, fsOut, files, workers, calls>>

\* the engine call on the resolved element
Act ==
  /\ call.pc = "act"
  /\ \E res \in ActionResults(call.op) :
       LET arg == IF call.op = "isElementChecked" THEN call.selector ELSE <<>>
           c == [call EXCEPT !.engine = Append(@, EngineCall(ElementAction(call.op), arg, ""))]
       IN call' =
            IF res = "fault" THEN Raise(c, Err("EngineFault", c.selector))
            ELSE IF c.op = "getPropertyValue" /\ res = "null"
              THEN Raise(c, Err("PropertyNull", c.selector))
            ELSE IF c.op = "setText" THEN [c EXCEPT !.pc = "type"]
            ELSE Return(c, res)
  /\ UNCHANGED <<formedSelector, pageTimeout, background, fsIn, fsOut, files, workers, calls>>

\* line 270: page.type with the module variable
Type ==
  /\ call.pc = "type"
  /\ \E res \in {"undefined", "fault"} :
       LET c == [call EXCEPT !.engine = Append(@, EngineCall("type", formedSelector, ""))]
       IN call' = IF res = "fault" THEN Raise(c, Err("EngineFault", c.selector))
                  ELSE Return(c, res)
  /\ UNCHANGED <<formedSelector, pageTimeout, background, fsIn, fsOut, files, workers, calls>>

\* open(url), lines 152-160: after a successful goto the page default changes
Open ==
  /\ call.pc = "idle"
  /\ \E gotoOk \in BOOLEAN :
       pageTimeout' = IF gotoOk THEN OpenedPageTimeout ELSE pageTimeout
  /\ UNCHANGED <<formedSelector, call, background, fsIn, fsOut, files, workers, calls>>

\* the test step that awaited the operation takes its outcome and goes on
Resume ==
  /\ call.pc = "done"
  /\ call' = IdleCall
  /\ UNCHANGED <<formedSelector, pageTimeout, background, fsIn, fsOut, files, workers, calls>>

----------------------------------------------------------------------------
(* Visual testing: createBaselineImage, captureScreenshot, compareScreenshots,
   runVisualTests (lines 8-117).  One test name on one day, so one baseline
   file, one current file and one diff file; each holds an image or is absent.
   An image is its width, its height and one value per pixel (0 black,
   1 white); a pixel stands for four bytes of PNG data. *)

Workers == {1, 2}

Img(w, h, data) == [width |-> w, height |-> h, data |-> data]

\* what the page can look like when a screenshot is taken
Images == {Img(1, 1, <<0>>), Img(1, 1, <<1>>),
           Img(1, 2, <<0, 1>>), Img(2, 1, <<0, 1>>), Img(2, 1, <<1, 1>>)}

\* timeout arguments of runVisualTests and createBaselineImage
VisualTimeouts == {None, Some(5000)}

\* files a direct compareScreenshots call can be pointed at
Paths == {"baseline", "current", "missing"}

NoFiles == [baseline |-> None, current |-> None, diff |-> None]

VisualOps == {"runVisualTests", "createBaselineImage", "captureScreenshot",
              "compareScreenshots"}

IdleWorker ==
  [op |-> "none", timeout |-> None, image1 |-> "none", image2 |-> "none",
   pc |-> "idle",
   branch |-> "none",       \* "create": no baseline was seen; "compare": one was
   waitFor |-> None,        \* what is given to page.waitForTimeout
   steps |-> <<>>,          \* the steps taken, in order
   captured |-> None,       \* the image page.screenshot produced in this call
   wrote |-> FALSE,         \* copyFileSync onto the baseline succeeded
   compared |-> FALSE,      \* pixelmatch ran to its end
   diffWritten |-> FALSE,   \* the diff file was written
   outcome |-> "none", value |-> "none", error |-> "none",
   logged |-> <<>>]         \* logger.error lines

\* timeout = 2000 (default parameter, lines 34 and 96)
timeoutDefault == 2000

existsSync(file) == file # None

\* fs.readFileSync + PNG.sync.read
ReadFile(path) == IF path = "missing" THEN None ELSE files[path]

ByteLength(img) == 4 * Len(img.data)

\* a variant of copyFileSync that leaves an existing destination alone
copyFileSyncKeep(src, dest) == IF dest = None THEN src ELSE dest

\* a variant of copyFileSync that copies nothing
copyFileSyncNothing(src, dest) == dest

\* fs.copyFileSync(src, dest): the destination's new content
copyFileSync(src, dest) == src

\* pixelmatch(img1.data, img2.data, diff.data, width, height, {threshold}):
\* it compares the lengths of the three buffers, never the dimensions
pixelmatch(img1, img2, width, height) ==
  IF \/ ByteLength(img1) # ByteLength(img2)
     \/ 4 * width * height # ByteLength(img1)
    THEN [ok |-> FALSE, numDiffPixels |-> 0, output |-> <<>>]
    ELSE LET differs == [i \in 1..Len(img1.data) |->
                           IF img1.data[i] # img2.data[i] THEN 1 ELSE 0]
         IN [ok |-> TRUE,
             numDiffPixels |-> Cardinality({i \in 1..Len(differs) : differs[i] = 1}),
             output |-> differs]

\* compareScreenshots, lines 62-87: what it returns, logs and writes.
\* writeOk: whether fs.writeFileSync of the diff succeeds.
compareScreenshots(file1, file2, writeOk) ==
  IF file1 = None \/ file2 = None
    THEN [value |-> "false", logged |-> "IOError", compared |-> FALSE, diff |-> None]
  ELSE LET img1 == The(file1)
           img2 == The(file2)
           width == img1.width
           height == img1.height
           pm == pixelmatch(img1, img2, width, height)
       IN IF ~pm.ok
            THEN [value |-> "false", logged |-> "SizesDoNotMatch",
                  compared |-> FALSE, diff |-> None]
          ELSE IF ~writeOk
            THEN [value |-> "false", logged |-> "IOError",
                  compared |-> TRUE, diff |-> None]
          ELSE [value |-> IF pm.numDiffPixels = 0 THEN "true" ELSE "false",
                logged |-> "none", compared |-> TRUE,
                diff |-> Some(Img(width, height, pm.output))]

\* a variant of the catch blocks in which runVisualTests rethrows
VRaiseRethrowing(r, err) ==
  LET l == [r EXCEPT !.pc = "done", !.logged = Append(@, err)]
  IN IF r.op = "createBaselineImage" \/ (r.op = "runVisualTests" /\ r.branch = "create")
       THEN [l EXCEPT !.outcome = "returned", !.value = "undefined"]
       ELSE [l EXCEPT !.outcome = "threw", !.error = err]

\* an error reaches the catch block of the function the worker called:
\* createBaselineImage (46-48) and runVisualTests (114-116) log it,
\* captureScreenshot (56-59) logs and rethrows it
VRaise(r, err) ==
  LET l == [r EXCEPT !.pc = "done", !.logged = Append(@, err)]
  IN IF r.op \in {"runVisualTests", "createBaselineImage"}
       THEN [l EXCEPT !.outcome = "returned", !.value = "undefined"]
       ELSE [l EXCEPT !.outcome = "threw", !.error = err]

VReturn(r, v) == [r EXCEPT !.pc = "done", !.outcome = "returned", !.value = v]

\* createBaselineImage(page, testName, timeout = 2000), to its first await
createBaselineImage(r, ms) ==
  [r EXCEPT !.branch = "create", !.pc = "wait",
            !.waitFor = IF ms = None THEN Some(timeoutDefault) ELSE ms]

\* runVisualTests(page, testName, timeout = 2000), to its first await
runVisualTests(r, ms) ==
  LET checked == [r EXCEPT !.steps = Append(@, "exists")]
  IN IF ~existsSync(files.baseline)
       THEN createBaselineImage(checked, None)
       ELSE [checked EXCEPT !.branch = "compare", !.pc = "wait",
                            !.waitFor = IF ms = None THEN Some(timeoutDefault)
                                        ELSE ms]

\* a worker calls one of the exported functions in ops
VCallOf(w, ops) ==
  /\ workers[w].pc = "idle"
  /\ \E op \in ops, ms \in VisualTimeouts, image1 \in Paths, image2 \in Paths :
       /\ op \in {"runVisualTests", "createBaselineImage"} \/ ms = None
       /\ IF op = "compareScreenshots"
            THEN image1 # "missing" \/ image2 # "missing"
            ELSE image1 = "baseline" /\ image2 = "current"
       /\ LET r == [IdleWorker EXCEPT !.op = op, !.timeout = ms,
                                      !.image1 = image1, !.image2 = image2]
          IN workers' = [workers EXCEPT ![w] =
               CASE op = "runVisualTests" -> runVisualTests(r, ms)
                 [] op = "createBaselineImage" -> createBaselineImage(r, ms)
                 [] op = "captureScreenshot" -> [r EXCEPT !.pc = "capture"]
                 [] OTHER -> [r EXCEPT !.pc = "compare"]]
  /\ UNCHANGED <<formedSelector, pageTimeout, call, background, fsIn, fsOut, files, calls>>

\* await page.waitForTimeout(timeout), lines 40 and 106
VWait(w) ==
  /\ workers[w].pc = "wait"
  /\ \E ok \in BOOLEAN :
       LET r == [workers[w] EXCEPT !.steps = Append(@, "wait")]
       IN workers' = [workers EXCEPT ![w] =
            IF ok THEN [r EXCEPT !.pc = "capture"] ELSE VRaise(r, "EngineFault")]
  /\ UNCHANGED <<formedSelector, pageTimeout, call, background, fsIn, fsOut, files, calls>>

\* captureScreenshot, lines 51-60: page.screenshot writes the current file
VCapture(w) ==
  /\ workers[w].pc = "capture"
  /\ \E ok \in BOOLEAN, img \in Images :
       LET r == [workers[w] EXCEPT !.steps = Append(@, "capture")]
       IN IF ok
            THEN /\ files' = [files EXCEPT !.current = Some(img)]
                 /\ workers' = [workers EXCEPT ![w] =
                      LET c == [r EXCEPT !.captured = Some(img)]
                      IN CASE c.branch = "create" -> [c EXCEPT !.pc = "copy"]
                           [] c.branch = "compare" -> [c EXCEPT !.pc = "compare"]
                           [] OTHER -> VReturn(c, "undefined")]
            ELSE /\ img = CHOOSE i \in Images : TRUE
                 /\ UNCHANGED files
                 /\ workers' = [workers EXCEPT ![w] =
                      VRaise([r EXCEPT !.logged = Append(@, "ScreenshotError")],
                             "ScreenshotError")]
  /\ UNCHANGED <<formedSelector, pageTimeout, call, background, fsIn, fsOut, calls>>

\* fs.copyFileSync(currentImage, baselineImage), line 45
VCopy(w) ==
  /\ workers[w].pc = "copy"
  /\ \E ok \in BOOLEAN :
       LET r == [workers[w] EXCEPT !.steps = Append(@, "copy")]
       IN IF ok /\ files.current # None
            THEN /\ files' = [files EXCEPT !.baseline = copyFileSync(files.current, @)]
                 /\ workers' = [workers EXCEPT ![w] =
                                  VReturn([r EXCEPT !.wrote = TRUE], "undefined")]
            ELSE /\ UNCHANGED files
                 /\ workers' = [workers EXCEPT ![w] = VRaise(r, "IOError")]
  /\ UNCHANGED <<formedSelector, pageTimeout, call, background, fsIn, fsOut, calls>>

\* compareScreenshots, called directly or from line 108
VCompare(w) ==
  /\ workers[w].pc = "compare"
  /\ \E writeOk \in BOOLEAN :
       LET r == [workers[w] EXCEPT !.steps = Append(@, "compare")]
           res == compareScreenshots(ReadFile(r.image1), ReadFile(r.image2), writeOk)
           l == [r EXCEPT !.compared = res.compared,
                          !.diffWritten = res.diff # None,
                          !.logged = IF res.logged = "none" THEN @
                                     ELSE Append(@, res.logged)]
       IN /\ files' = IF res.diff # None THEN [files EXCEPT !.diff = res.diff] ELSE files
          /\ workers' = [workers EXCEPT ![w] =
               IF r.op = "compareScreenshots" THEN VReturn(l, res.value)
               ELSE IF res.value = "false"
                 THEN VReturn([l EXCEPT !.logged = Append(@, "VisualDifference")],
                              "undefined")
               ELSE VReturn(l, "undefined")]
  /\ UNCHANGED <<formedSelector, pageTimeout, call, background, fsIn, fsOut, calls>>

\* the caller of the function takes its outcome and goes on
VResume(w) ==
  /\ workers[w].pc = "done"
  /\ workers' = [workers EXCEPT ![w] = IdleWorker]
  /\ UNCHANGED <<formedSelector, pageTimeout, call, background, fsIn, fsOut, files, calls>>

VCall(w) == VCallOf(w, VisualOps)

VRun(w) == VCallOf(w, {"runVisualTests"})

VStep(w) == VWait(w) \/ VCapture(w) \/ VCopy(w) \/ VCompare(w) \/ VResume(w)

----------------------------------------------------------------------------
(* Two calls in flight on the same page.  Both go through the module
   variable formedSelector (line 124): waitForElementState assigns it after
   awaiting formSelector (line 235), and the query after the wait reads it
   again (lines 270, 405, 429). *)

Callers == {1, 2}

ConcurrentOps == {"getElement", "getElements", "setText"}

IdleCaller ==
  [op |-> "none", selector |-> <<>>, pc |-> "idle", phase |-> 0,
   engine |-> <<>>, outcome |-> "none", logged |-> <<>>]

\* the catch blocks: setText logs (273-275), the others log and rethrow
CRaise(c, err) ==
  [c EXCEPT !.pc = "done", !.logged = Append(@, err),
            !.outcome = IF Swallows(c.op) THEN "returned" ELSE "threw"]

CReturn(c) == [c EXCEPT !.pc = "done", !.outcome = "returned"]

\* the call runs to `await pageFixture.formSelector(selector)`, line 235
CCall(i) ==
  /\ calls[i].pc = "idle"
  /\ \E op \in ConcurrentOps, selector \in CallSelectors :
       calls' = [calls EXCEPT ![i] =
                   [IdleCaller EXCEPT !.op = op, !.selector = selector,
                                      !.pc = "form", !.phase = 1]]
  /\ UNCHANGED <<formedSelector, pageTimeout, call, background, fsIn, fsOut, files, workers>>

\* lines 235-252: the assignment of the module variable, then
\* page.waitForSelector(formedSelector) up to the await of Promise.race
CForm(i) ==
  /\ calls[i].pc = "form"
  /\ LET c == calls[i]
         f == formSelector(c.selector)
     IN IF f.ok
          THEN /\ formedSelector' = f.value
               /\ calls' = [calls EXCEPT ![i] =
                    [c EXCEPT !.pc = "race",
                              !.engine = Append(@, EngineCall("waitForSelector", f.value, ""))]]
          ELSE /\ UNCHANGED formedSelector
               /\ calls' = [calls EXCEPT ![i] = CRaise(c, "InvalidSelector")]
  /\ UNCHANGED <<pageTimeout, call, background, fsIn, fsOut, files, workers>>

\* Promise.race settles, line 252; setText goes on to clearText (line 269)
CRace(i) ==
  /\ calls[i].pc = "race"
  /\ \E res \in {"resolve", "reject"} :
       LET c == calls[i]
       IN calls' = [calls EXCEPT ![i] =
            IF res = "reject" THEN CRaise(c, "TimeoutError")
            ELSE IF c.op = "setText" /\ c.phase = 1
              THEN [c EXCEPT !.pc = "form", !.phase = 2]
            ELSE [c EXCEPT !.pc = "query"]]
  /\ UNCHANGED <<formedSelector, pageTimeout, call, background, fsIn, fsOut, files, workers>>

\* page.$(formedSelector), line 405, or page.$$(formedSelector), line 429
CQuery(i) ==
  /\ calls[i].pc = "query"
  /\ \E found \in {"null", "handle"} :
       LET m == IF calls[i].op = "getElements" THEN "$$" ELSE "$"
           c == [calls[i] EXCEPT !.engine = Append(@, EngineCall(m, formedSelector, ""))]
       IN calls' = [calls EXCEPT ![i] =
            IF c.op # "setText" THEN CReturn(c)
            ELSE IF found = "null" THEN CRaise(c, "NotFound")
            ELSE [c EXCEPT !.pc = "fill"]]
  /\ UNCHANGED <<formedSelector, pageTimeout, call, background, fsIn, fsOut, files, workers>>

\* clearText: await element.fill(''), line 289
CFill(i) ==
  /\ calls[i].pc = "fill"
  /\ \E ok \in BOOLEAN :
       LET c == [calls[i] EXCEPT !.engine = Append(@, EngineCall("fill", <<>>, ""))]
       IN calls' = [calls EXCEPT ![i] =
            IF ok THEN [c EXCEPT !.pc = "type"] ELSE CRaise(c, "EngineFault")]
  /\ UNCHANGED <<formedSelector, pageTimeout, call, background, fsIn, fsOut, files, workers>>

\* setText: await this.page.type(formedSelector, text, { delay }), line 270
CType(i) ==
  /\ calls[i].pc = "type"
  /\ \E ok \in BOOLEAN :
       LET c == [calls[i] EXCEPT !.engine = Append(@, EngineCall("type", formedSelector, ""))]
       IN calls' = [calls EXCEPT ![i] =
            IF ok THEN CReturn(c) ELSE CRaise(c, "EngineFault")]
  /\ UNCHANGED <<formedSelector, pageTimeout, call, background, fsIn, fsOut, files, workers>>

\* the caller takes the outcome and goes on
CResume(i) ==
  /\ calls[i].pc = "done"
  /\ calls' = [calls EXCEPT ![i] = IdleCaller]
  /\ UNCHANGED <<formedSelector, pageTimeout, call, background, fsIn, fsOut, files, workers>>

CStep(i) ==
  CCall(i) \/ CForm(i) \/ CRace(i) \/ CQuery(i) \/ CFill(i) \/ CType(i) \/ CResume(i)

ConcurrentNext == \E i \in Callers : CStep(i)

----------------------------------------------------------------------------
Init ==
  /\ formedSelector = <<>>
  /\ pageTimeout = EngineDefaultTimeout
  /\ call = IdleCall
  /\ background = EmptyBag
  /\ fsIn = <<>>
  /\ fsOut = NoResult
  /\ files = NoFiles
  /\ workers = [w \in Workers |-> IdleWorker]
  /\ calls = [i \in Callers |-> IdleCaller]

Next == Call \/ RaceSettle \/ BackgroundSettle \/ Query \/ Act \/ Type \/ Resume \/ Open

Spec == Init /\ [][Next]_vars

----------------------------------------------------------------------------
(* Direct calls of formSelector *)

FormSelectorCall ==
  /\ fsOut = NoResult
  /\ fsOut' = formSelector(fsIn)
  /\ UNCHANGED <<formedSelector, pageTimeout, call, background, fsIn, files, workers, calls>>

FormSelectorAgain ==
  /\ fsOut # NoResult
  /\ fsIn' \in AllSelectors
  /\ fsOut' = NoResult
  /\ UNCHANGED <<formedSelector, pageTimeout, call, background, files, workers, calls>>

SelectorInit ==
  /\ formedSelector = <<>>
  /\ pageTimeout = EngineDefaultTimeout
  /\ call = IdleCall
  /\ background = EmptyBag
  /\ fsIn \in AllSelectors
  /\ fsOut = NoResult
  /\ files = NoFiles
  /\ workers = [w \in Workers |-> IdleWorker]
  /\ calls = [i \in Callers |-> IdleCaller]

SelectorNext == FormSelectorCall \/ FormSelectorAgain

SelectorSpec == SelectorInit /\ [][SelectorNext]_vars

----------------------------------------------------------------------------
(* Visual testing by one worker, and by two workers on the same test name *)

VisualNext == VCall(1) \/ VStep(1)

VisualSpec == Init /\ [][VisualNext]_vars

RaceNext == \E w \in Workers : VRun(w) \/ VStep(w)

RaceSpec == Init /\ [][RaceNext]_vars

ConcurrentSpec == Init /\ [][ConcurrentNext]_vars

----------------------------------------------------------------------------
(* Properties *)

Done == call.pc = "done"
ValidSelector == formSelector(call.selector).ok
ValidWaitState == call.waitState \in {Some(PRESENT), Some(VISIBLE), Some(INVISIBLE)}
Positive(timeoutMs) == timeoutMs # None /\ The(timeoutMs) > 0
Toggles == {"selectCheckbox", "unselectCheckbox", "selectDropdownOption"}
EngineCalls(ms) == {i \in DOMAIN call.engine : call.engine[i].m \in ms}

\* C1: a waitForElementState call with a valid selector, a wait state of the
\* enum and a positive timeoutMs, whose condition never comes true, returns
\* normally, without an error, when timeoutMs has elapsed.
C1_NeverSatisfiedReturnsAtTimeout ==
  (/\ Done
   /\ call.op = "waitForElementState"
   /\ ValidSelector /\ ValidWaitState
   /\ Positive(call.timeoutMs)
   /\ call.condAt = None)
  => (/\ call.outcome = "returned"
      /\ call.clock = The(call.timeoutMs))

\* C2: waitForElementState returns at the earlier of the condition coming true
\* and the timeoutMs timer firing: at the condition time t when t < timeoutMs,
\* at timeoutMs otherwise, and it does return.
C2_ReturnsAtEarlierOfConditionAndTimer ==
  (/\ Done
   /\ call.op = "waitForElementState"
   /\ ValidSelector /\ ValidWaitState
   /\ Positive(call.timeoutMs))
  => (/\ call.outcome = "returned"
      /\ call.waitEnd \in {"condition", "timer"}
      /\ call.clock = IF call.condAt = None THEN The(call.timeoutMs)
                      ELSE Min(The(call.condAt), The(call.timeoutMs)))

\* C3: with timeoutMs absent, zero or negative the timer of the race runs for
\* 30000 ms, directly or through getElement / getElements, and a wait whose
\* condition has not come true does not end before 30000 ms.
C3_DefaultTimerRuns30000 ==
  /\ (call.pc = "race" /\ ~Positive(call.timeoutMs))
       => call.waitTimeout = Some(30000)
  /\ (/\ Done
      /\ call.op \in {"waitForElementState", "getElement", "getElements"}
      /\ ~Positive(call.timeoutMs)
      /\ call.waitEnd \notin {"none", "condition"})
       => call.clock >= 30000

\* C4: when a call has returned, no poll and no timer started by it or by an
\* earlier call is still pending.
C4_NothingPendingAfterReturn ==
  call.pc \in {"done", "idle"} => BagCardinality(background) = 0

\* C6: every accessor operation given a selector that is neither '#'-prefixed
\* nor structural raises the invalid-selector error to its caller and makes no
\* engine call.
C6_InvalidSelectorAlwaysRaised ==
  (Done /\ ~ValidSelector)
  => (/\ call.outcome = "threw"
      /\ call.error = Err("InvalidSelector", call.selector)
      /\ call.engine = <<>>)

\* C7: getElement / getElements with a valid selector wait for the requested
\* state (VISIBLE when none is given), then make exactly one query; when
\* nothing matched they return null / the empty sequence and do not raise,
\* however the wait ended.
C7_WaitThenOneQueryAbsenceReturned ==
  (/\ Done
   /\ call.op \in {"getElement", "getElements"}
   /\ ValidSelector
   /\ call.waitState \in {None, Some(PRESENT), Some(VISIBLE), Some(INVISIBLE)}
   /\ call.element # "handle"
   /\ call.logged.kind # "EngineFault")
  => (/\ call.outcome = "returned"
      /\ call.value = (IF call.op = "getElement" THEN "null" ELSE "[]")
      /\ Len(call.engine) = 3
      /\ call.engine[1] =
           EngineCall("waitForSelector", formSelector(call.selector).value,
                      StateOption(IF call.waitState = None THEN VISIBLE
                                  ELSE The(call.waitState)))
      /\ call.engine[2].m = "waitForTimeout"
      /\ call.engine[3] =
           EngineCall(IF call.op = "getElement" THEN "$" ELSE "$$",
                      formSelector(call.selector).value, ""))

\* C8: click and setText raise an element-not-found error whenever the element
\* resolved to absent; they never complete normally without having acted.
C8_ClickAndTypeRaiseOnAbsent ==
  (Done /\ call.op \in {"click", "setText"} /\ call.element = "null")
  => (call.outcome = "threw" /\ call.error.kind = "NotFound")

\* C9: clearText, keyPress, getText and getPropertyValue raise an error
\* whenever the element resolved to absent, and make no fill, press,
\* textContent or property read on the engine.
C9_AbsentIsFatalAndNoAction ==
  (/\ Done
   /\ call.op \in {"clearText", "keyPress", "getText", "getPropertyValue"}
   /\ call.element = "null")
  => (/\ call.outcome = "threw"
      /\ call.error # NoError
      /\ EngineCalls({"fill", "press", "textContent", "getProperty"}) = {})

C9_Witness ==
  /\ Done
  /\ call.op = "getPropertyValue"
  /\ call.element = "null"
  /\ call.outcome = "threw"
  /\ EngineCalls({"$"}) # {}

\* C10: selectCheckbox, unselectCheckbox and selectDropdownOption return
\* normally, with no error reaching the caller, when the element is absent and
\* when the engine fails the element action.
C10_TogglesNeverRaise ==
  (Done /\ call.op \in Toggles)
  => (/\ call.outcome = "returned"
      /\ call.error = NoError
      /\ (call.element = "null" => EngineCalls({"check", "uncheck", "selectOption"}) = {}))

C10_Witness ==
  /\ Done
  /\ call.op \in Toggles
  /\ call.element = "handle"
  /\ EngineCalls({"check", "uncheck", "selectOption"}) # {}
  /\ call.logged.kind = "EngineFault"
  /\ call.outcome = "returned"

\* C5: formSelector maps a selector starting with '#' to
\* [data-testid="X"], X being everything after the first character, untouched;
\* any other selector starting with '//' or '(' to itself; and fails on every
\* other selector, the empty one included, with an error naming the selector.
C5_FormSelectorThreeWay ==
  fsOut # NoResult =>
    IF Len(fsIn) >= 1 /\ fsIn[1] = "#"
      THEN /\ fsOut.ok
           /\ Len(fsOut.value) = Len(AttrPrefix) + Len(fsIn) - 1 + Len(AttrSuffix)
           /\ \A i \in 1..Len(AttrPrefix) : fsOut.value[i] = AttrPrefix[i]
           /\ \A i \in 2..Len(fsIn) : fsOut.value[Len(AttrPrefix) + i - 1] = fsIn[i]
           /\ \A i \in 1..Len(AttrSuffix) :
                fsOut.value[Len(AttrPrefix) + Len(fsIn) - 1 + i] = AttrSuffix[i]
    ELSE IF \/ Len(fsIn) >= 2 /\ fsIn[1] = "/" /\ fsIn[2] = "/"
            \/ Len(fsIn) >= 1 /\ fsIn[1] = "("
      THEN fsOut.ok /\ fsOut.value = fsIn
    ELSE /\ ~fsOut.ok
         /\ fsOut.error.kind = "InvalidSelector"
         /\ fsOut.error.selector = fsIn

C5_Witness ==
  /\ fsIn = <<"#", "/", "/">>
  /\ fsOut.ok
  /\ fsOut.value = AttrPrefix \o <<"/", "/">> \o AttrSuffix

StateChecks == {"isElementVisible", "isElementEnabled", "isElementChecked"}

\* C11 (as stated): each of isElementPresent, isElementVisible,
\* isElementEnabled and isElementChecked returns false only when the element
\* was resolved and its property is false, and raises whenever the element
\* resolved to absent.
C11_FalseOnlyForResolvedElement ==
  (Done /\ call.op \in StateChecks \cup {"isElementPresent"})
  => (/\ call.value = "false" => call.element = "handle"
      /\ call.element = "null" => call.outcome = "threw")

\* C11 (amended): isElementVisible, isElementEnabled and isElementChecked
\* return false only after reading a false property of a resolved element and
\* raise a not-found error when the element resolved to absent;
\* isElementPresent does not raise on absence: it returns false exactly when
\* the element resolved to absent and true when it resolved to a handle.
C11_PresenceReturnsFalseOthersRaise ==
  /\ (Done /\ call.op \in StateChecks)
     => (/\ call.value = "false"
            => (/\ call.element = "handle"
                /\ call.outcome = "returned"
                /\ call.engine[Len(call.engine)].m = ElementAction(call.op))
         /\ call.element = "null"
            => (/\ call.outcome = "threw"
                /\ call.error = Err("NotFound", call.selector)
                /\ EngineCalls({"isVisible", "isEnabled", "$eval"}) = {}))
  /\ (Done /\ call.op = "isElementPresent" /\ call.element # "unset")
     => (/\ call.outcome = "returned"
         /\ call.value = (IF call.element = "null" THEN "false" ELSE "true")
         /\ Len(call.engine) = 3)

C11_Witness ==
  /\ Done
  /\ call.op = "isElementPresent"
  /\ call.element = "null"
  /\ call.outcome = "returned"
  /\ call.value = "false"

(* C12: a baseline file that exists is never written again: over any sequence
   of runVisualTests and createBaselineImage calls by one worker, no step
   changes the content of an existing baseline. *)
C12_BaselineNeverRewritten ==
  [][files.baseline # None => files'.baseline = files.baseline]_vars

\* the visual-testing call of the single worker
Run == workers[1]

\* a runVisualTests call that saw no baseline has ended
NoBaselineRunDone ==
  /\ Run.pc = "done"
  /\ Run.op = "runVisualTests"
  /\ Run.branch = "create"

(* C13: runVisualTests for a test name with no baseline always ends with the
   baseline existing as a copy of the image captured in that run, with no
   pixel comparison and no diff artifact, whatever the capture step did. *)
C13_NoBaselineRunAlwaysCreatesBaseline ==
  NoBaselineRunDone
    => (/\ files.baseline # None
        /\ files.baseline = Run.captured
        /\ ~Run.compared
        /\ ~Run.diffWritten)

\* C13 as the code has it: such a run never compares and never writes a diff;
\* it leaves the baseline as a copy of its own capture exactly when the wait,
\* the capture and the copy all succeeded, and otherwise leaves no baseline
\* and logs the failure.
C13_NoBaselineRunCreatesBaselineUnlessAStepFails ==
  NoBaselineRunDone
    => (/\ ~Run.compared
        /\ ~Run.diffWritten
        /\ \A i \in 1..Len(Run.steps) : Run.steps[i] # "compare"
        /\ Run.outcome = "returned"
        /\ IF Run.steps = <<"exists", "wait", "capture", "copy">> /\ Run.logged = <<>>
             THEN /\ Run.captured # None
                  /\ files.baseline = Run.captured
             ELSE /\ files.baseline = None
                  /\ Run.logged # <<>>)

C13_Witness ==
  /\ NoBaselineRunDone
  /\ Run.wrote
  /\ Run.captured # None
  /\ files.baseline = Run.captured

Logged(r, line) == \E i \in 1..Len(r.logged) : r.logged[i] = line

\* every step of the run succeeded and, if it compared, the images were equal
CleanRun(r) ==
  \/ r.steps = <<"exists", "wait", "capture", "copy">> /\ r.wrote
  \/ /\ r.steps = <<"exists", "wait", "capture", "compare">>
     /\ r.diffWritten
     /\ The(files.baseline).data = The(files.current).data

(* C14: runVisualTests is purely observational: whichever of its steps fails,
   and whether or not the images differ, the call completes normally with no
   value; a failure or difference shows as a log line, and a diff artifact is
   written only by a comparison that ran. *)
C14_RunVisualTestsNeverRaises ==
  (Run.pc = "done" /\ Run.op = "runVisualTests")
    => (/\ Run.outcome = "returned"
        /\ Run.value = "undefined"
        /\ Run.error = "none"
        /\ Run.diffWritten => (Run.compared /\ files.diff # None)
        /\ (Run.compared /\ ~Logged(Run, "IOError")) => Run.diffWritten
        /\ CleanRun(Run) <=> Run.logged = <<>>)

C14_Witness ==
  /\ Run.pc = "done"
  /\ Run.op = "runVisualTests"
  /\ Run.compared
  /\ Run.diffWritten
  /\ Logged(Run, "VisualDifference")
  /\ Run.outcome = "returned"

\* a direct compareScreenshots call on two readable images has ended
DirectCompareDone ==
  /\ Run.pc = "done"
  /\ Run.op = "compareScreenshots"
  /\ ReadFile(Run.image1) # None
  /\ ReadFile(Run.image2) # None

DimensionsDiffer(img1, img2) ==
  img1.width # img2.width \/ img1.height # img2.height

(* C15: compareScreenshots on two images of unequal width or height fails
   with a dimension-mismatch error raised to its caller, compares no pixels
   and writes no diff, also when the two images have the same pixel count. *)
C15_DimensionMismatchIsRaised ==
  (/\ DirectCompareDone
   /\ DimensionsDiffer(The(ReadFile(Run.image1)), The(ReadFile(Run.image2))))
    => (/\ Run.outcome = "threw"
        /\ Run.error = "SizesDoNotMatch"
        /\ ~Run.compared
        /\ ~Run.diffWritten)

\* the call met a failing screenshot or a failing file read or write
IOFailed(r) == Logged(r, "ScreenshotError") \/ Logged(r, "IOError")

(* C16: a failing screenshot or file read/write inside a direct
   captureScreenshot or compareScreenshots call is raised to that call's
   caller, never turned into a normal return value, while the same failure
   inside runVisualTests is caught and logged. *)
C16_DirectCallsFailFast ==
  /\ (/\ Run.pc = "done"
      /\ Run.op \in {"captureScreenshot", "compareScreenshots"}
      /\ IOFailed(Run))
       => (Run.outcome = "threw" /\ Run.value = "none")
  /\ (Run.pc = "done" /\ Run.op = "runVisualTests" /\ IOFailed(Run))
       => Run.outcome = "returned"

(* C17: two workers running runVisualTests for the same test name, each
   having seen no baseline, both write the baseline: the copy of a worker on
   the no-baseline branch replaces whatever baseline is there by then, and
   such a worker never runs a comparison. *)
C17_BothWorkersWriteTheBaseline ==
  [][\A w \in Workers :
       /\ workers'[w].branch = "create"
            => (/\ ~workers'[w].compared
                /\ \A i \in 1..Len(workers'[w].steps) : workers'[w].steps[i] # "compare")
       /\ (~workers[w].wrote /\ workers'[w].wrote)
            => (/\ workers[w].branch = "create"
                /\ files.current # None
                /\ files'.baseline = files.current)]_vars

\* both saw no baseline, both wrote it, the first worker's image was replaced
C17_Witness ==
  /\ \A w \in Workers :
       /\ workers[w].op = "runVisualTests"
       /\ workers[w].pc = "done"
       /\ workers[w].branch = "create"
       /\ workers[w].wrote
       /\ ~workers[w].compared
  /\ workers[1].captured # workers[2].captured
  /\ files.baseline = workers[2].captured

IsPrefix(s, t) == Len(s) <= Len(t) /\ \A i \in 1..Len(s) : s[i] = t[i]

(* C18: runVisualTests waits the timeout its caller gave (2000 when the
   caller gave none) before capturing, whether or not a baseline exists; the
   wait precedes the capture and the capture precedes the copy or the
   comparison. *)
C18_WaitsCallerTimeoutOnBothBranches ==
  (Run.op = "runVisualTests" /\ Run.pc # "idle")
    => (/\ Run.waitFor = (IF Run.timeout = None THEN Some(timeoutDefault)
                          ELSE Run.timeout)
        /\ \/ IsPrefix(Run.steps, <<"exists", "wait", "capture", "copy">>)
           \/ IsPrefix(Run.steps, <<"exists", "wait", "capture", "compare">>))

\* the engine calls of caller i that come after its wait
AfterWaitCalls(i) ==
  {k \in 1..Len(calls[i].engine) : calls[i].engine[k].m \in {"$", "$$", "type"}}

(* C19: the query that getElement and getElements perform after the wait,
   and the type action of setText, always use the translation of the
   selector passed to that same call, in every interleaving of two calls on
   the same page and after a call that failed. *)
C19_QueryUsesOwnSelector ==
  \A i \in Callers : \A k \in AfterWaitCalls(i) :
    calls[i].engine[k].arg = formSelector(calls[i].selector).value

====
